---- MODULE Spec2Model ----
(***************************************************************************)
(* A model of the "there" HTTP router: Router.ServeHTTP (handler.go), the  *)
(* per-request state built by NewHttpRequest (request.go) and the response *)
(* renderers of response.go.                                               *)
(*                                                                         *)
(* Spec      one execution of Router.ServeHTTP, every router configuration *)
(* ConcSpec  MaxRequests concurrent executions of Router.ServeHTTP         *)
(* RenderSpec  one HttpResponse rendered to a fresh http.ResponseWriter    *)
(***************************************************************************)
EXTENDS Naturals, Sequences, FiniteSets, TLC

VARIABLES
    globalMiddlewares, \* router.globalMiddlewares, fixed after setup
    nodeMiddlewares,   \* node.middlewares of every trie node, fixed after setup
    pc,                \* position of every ServeHTTP execution
    request,           \* the *http.Request of every execution
    httpRequest,       \* the HttpRequest value built at handler.go:9
    heap,              \* the RouteParamReader objects that were allocated
    local,             \* ServeHTTP's local variables
    log,               \* what every execution's middlewares and endpoint did
    out,               \* what every execution wrote to its transport
    resp,              \* RenderSpec: the HttpResponse still to be rendered
    top,               \* RenderSpec: the HttpResponse handed to the renderer
    rw                 \* RenderSpec: the http.ResponseWriter

routerVars == <<globalMiddlewares, nodeMiddlewares>>
serveVars == <<pc, request, httpRequest, heap, local, log, out>>
renderVars == <<resp, top, rw>>
vars == <<globalMiddlewares, nodeMiddlewares, pc, request, httpRequest, heap,
          local, log, out, resp, top, rw>>

Nil == "nil"

\* ---------------------------------------------------------------- bounds
MaxGlobal == 2
MaxLocal == 2
MaxRequests == 2

Requests == 1..MaxRequests
Methods == {"GET", "POST", "BREW"}
Kinds == {"pass", "wrap", "short"}

RECURSIVE SeqsUpTo(_, _)
SeqsUpTo(S, n) ==
    IF n = 0 THEN {<<>>}
    ELSE LET shorter == SeqsUpTo(S, n - 1)
         IN shorter \cup {Append(s, x) : s \in {t \in shorter : Len(t) = n - 1}, x \in S}

\* the request paths, split into their segments: paths that resolve with and
\* without a binding, and paths that miss at the first and at the last segment
Paths ==
    {<<>>, <<"users">>, <<"users", "42">>, <<"users", "self">>, <<"users", "users">>,
     <<"posts">>, <<"users", "42", "edit">>}

\* ------------------------------------------------------ method dispatch
\* The fixed integer domain of the HTTP methods; every unrecognized method
\* string maps to the sentinel index, which no registration ever fills.
methodToInt(m) ==
    CASE m = "GET" -> 0
      [] m = "POST" -> 1
      [] OTHER -> 2

MethodIndexes == {methodToInt(m) : m \in Methods}

\* ------------------------------------------------------------- the trie
EmptyMap == <<>>

Nodes == {"/", "/users", "/users/self", "/users/:id"}
root == "/"

staticChildren(n) ==
    CASE n = "/" -> [s \in {"users"} |-> "/users"]
      [] n = "/users" -> [s \in {"self"} |-> "/users/self"]
      [] OTHER -> EmptyMap

dynamicChild(n) ==
    CASE n = "/users" -> [name |-> "id", node |-> "/users/:id"]
      [] OTHER -> [name |-> Nil, node |-> Nil]

RECURSIVE walk(_, _, _)
walk(n, segs, params) ==
    IF segs = <<>> THEN [node |-> n, params |-> params]
    ELSE LET seg == Head(segs)
         IN IF seg \in DOMAIN staticChildren(n)
            THEN walk(staticChildren(n)[seg], Tail(segs), params)
            ELSE IF dynamicChild(n).node # Nil
                 THEN walk(dynamicChild(n).node, Tail(segs),
                           (dynamicChild(n).name :> seg) @@ params)
                 ELSE [node |-> Nil, params |-> params]

findNode(path) == walk(root, path, EmptyMap)

\* The routes of the router: GET /users/:id (with local middlewares), GET
\* /users/self and POST /users.
handler(n) ==
    CASE n = "/users/:id" -> [x \in MethodIndexes |-> IF x = methodToInt("GET") THEN "getUser" ELSE Nil]
      [] n = "/users/self" -> [x \in MethodIndexes |-> IF x = methodToInt("GET") THEN "getSelf" ELSE Nil]
      [] n = "/users" -> [x \in MethodIndexes |-> IF x = methodToInt("POST") THEN "createUser" ELSE Nil]
      [] OTHER -> [x \in MethodIndexes |-> Nil]

RouteNotFoundHandler == "notFound"

Middleware(group, i, kind) == [id |-> <<group, i>>, kind |-> kind]

MiddlewareList(group, kinds) == [i \in 1..Len(kinds) |-> Middleware(group, i, kinds[i])]

\* insert: the terminal node's handlers[method] and middlewares[method] are
\* set together, so a method without an endpoint has no middlewares either.
insert(locals) ==
    [n \in Nodes |-> [x \in MethodIndexes |->
        IF n = "/users/:id" /\ x = methodToInt("GET") THEN locals ELSE <<>>]]

\* ----------------------------------------------------- the request state
\* (mutant) one RouteParamReader kept by the router and handed to every request
SharedRouteParamsAddr(h) == 1

\* request.go:25 and :33: a RouteParamReader of its own for every request.
NewRouteParamsAddr(h) == Len(h) + 1

\* request.go:22-35
NewHttpRequest(h, req) ==
    [Method |-> req.method, RouteParams |-> NewRouteParamsAddr(h)]

\* the heap after NewHttpRequest: the RouteParamReader starts as MapString{}
AllocRouteParams(h, addr) ==
    IF addr \in DOMAIN h THEN [h EXCEPT ![addr] = EmptyMap] ELSE Append(h, EmptyMap)

\* (mutant) the bindings are never written into the request's slot
StoreRouteParamsSkipped(h, addr, params) == h

\* handler.go:18, *httpRequest.RouteParams = params
StoreRouteParams(h, addr, params) == [h EXCEPT ![addr] = params]

\* (mutant) the fallback of handler.go:27-29 is missing
SelectEndpointNoFallback(node, method) ==
    IF node # Nil THEN handler(node)[method] ELSE Nil

\* handler.go:20-29
SelectEndpoint(node, method) ==
    LET endpoint == IF node # Nil THEN handler(node)[method] ELSE Nil
    IN IF endpoint = Nil THEN RouteNotFoundHandler ELSE endpoint

\* (mutant) the middlewares are read from the GET slot whatever the method
SelectMiddlewaresOfGet(table, node, method) ==
    IF node # Nil THEN table[node][methodToInt("GET")] ELSE <<>>

\* handler.go:21-26
SelectMiddlewares(table, node, method) ==
    IF node # Nil THEN table[node][method] ELSE <<>>

\* handler.go:31-33: the ResponseFunc closure over endpoint and httpRequest
Terminal(endpoint, hr) == [kind |-> "endpoint", endpoint |-> endpoint, req |-> hr]

\* (mutant) the loops start one element too low
LastIndexOffByOne(s) == IF Len(s) > 0 THEN Len(s) - 1 ELSE 0

\* handler.go:35 and :39, i := len(...) - 1 (indexes are 1-based here)
LastIndex(s) == Len(s)

\* (mutant) the middleware is called and what it returns is dropped
WrapDropped(mw, nxt) == nxt

\* handler.go:37 and :41, next = middleware(httpRequest, next): what a
\* middleware returns: next itself, a response that renders and then invokes
\* next, or a response of its own that never invokes next.
Wrap(mw, nxt) ==
    CASE mw.kind = "pass" -> nxt
      [] mw.kind = "wrap" -> [kind |-> "wrap", mw |-> mw.id, next |-> nxt]
      [] mw.kind = "short" -> [kind |-> "own", mw |-> mw.id]

Entered(mw, hr, h) == [ev |-> "enter", who |-> mw.id, params |-> h[hr.RouteParams]]

Invoked(endpoint, hr, h) == [ev |-> "endpoint", who |-> endpoint, params |-> h[hr.RouteParams]]

NoLocal == [method |-> Nil, node |-> Nil, params |-> EmptyMap, endpoint |-> Nil,
            middlewares |-> <<>>, next |-> Nil, i |-> 0]

\* ------------------------------------------------- the response values
MaxDepth == 2
MaxLen == 2

Quote == "\""
Backslash == "\\"
Chars == {"a", Quote, Backslash}
Messages == SeqsUpTo(Chars, MaxLen)
Codes == {200, 404}
Payloads == {"value", "unmarshalable"}

ResponseHeaderContentType == "Content-Type"
ContentTypeTextPlain == "text/plain"
ContentTypeApplicationJson == "application/json"
ContentTypeApplicationXml == "application/xml"
StatusInternalServerError == 500

HeaderKeys == {ResponseHeaderContentType, "X"}
HeaderValues(k) == IF k = ResponseHeaderContentType THEN {"text/html"} ELSE {"1", "2"}
\* the MapString values handed to WithHeaders
HeaderMaps ==
    UNION {[ks -> UNION {HeaderValues(k) : k \in ks}] : ks \in SUBSET HeaderKeys}
WellTyped(h) == \A k \in DOMAIN h : h[k] \in HeaderValues(k)

NoResponse == [kind |-> "none"]

\* response.go:29-31
bytesResponse(data) == [kind |-> "bytes", data |-> data]

\* response.go:43-45
StatusWithResponse(code, response) == [kind |-> "status", code |-> code, response |-> response]

\* response.go:25-27
Bytes(code, data) == StatusWithResponse(code, bytesResponse(data))

\* response.go:38-40, a statusResponse whose response is nil
Status(code) == [kind |-> "status", code |-> code, response |-> NoResponse]

\* response.go:60-62
WithHeaders(headers, response) == [kind |-> "header", headers |-> headers, response |-> response]

\* response.go:82-84
String(code, data) == [kind |-> "string", code |-> code, data |-> data]

\* response.go:159-162
jsonResponse(code, data) == [kind |-> "json", code |-> code, data |-> data]

\* response.go:199-202
xmlResponse(code, data) == [kind |-> "xml", code |-> code, data |-> data]

\* response.go:98, the characters of {"error":"
jsonLeft == <<"{", Quote, "e", "r", "r", "o", "r", Quote, ":", Quote>>

\* response.go:99, the characters of "}
jsonRight == <<Quote, "}">>

\* response.go:107-113: the loop over the bytes of the message.  The Go
\* literal "\"" written for a quote is the one-character string holding the
\* quote itself.
RECURSIVE errorLoop(_, _)
errorLoop(e, b) ==
    IF e = <<>> THEN b
    ELSE IF Head(e) = Quote
         THEN errorLoop(Tail(e), b \o <<Quote>>)
         ELSE errorLoop(Tail(e), Append(b, Head(e)))

\* response.go:103-115
Error(code, err) == jsonResponse(code, jsonLeft \o errorLoop(err, <<>>) \o jsonRight)

\* json.Marshal and xml.Marshal: the bytes of the payload or an error
Marshal(data) ==
    IF data = "unmarshalable" THEN [err |-> <<"u", "n", "s", "u", "p", "p", "o", "r", "t", "e", "d">>,
                                    bytes |-> <<>>]
    ELSE [err |-> Nil, bytes |-> <<"v", "a", "l", "u", "e">>]

\* response.go:151-157
Json(code, data) ==
    LET m == Marshal(data)
    IN IF m.bytes = <<>>
       THEN Error(StatusInternalServerError, <<"j", "s", "o", "n", ":", " ">> \o m.err)
       ELSE jsonResponse(code, m.bytes)

\* response.go:172-174
Message(code, message) == jsonResponse(code, message)

\* response.go:191-197
Xml(code, data) ==
    LET m == Marshal(data)
    IN IF m.bytes = <<>>
       THEN Error(StatusInternalServerError, <<"x", "m", "l", ":", " ">> \o m.err)
       ELSE xmlResponse(code, m.bytes)

\* the calls an endpoint can make to build its response, nested up to depth d
RECURSIVE Calls(_)
Calls(d) ==
    IF d = 0
    THEN {[ctor |-> "String", code |-> c, data |-> <<"h", "i">>] : c \in Codes}
         \cup {[ctor |-> "Json", code |-> c, value |-> v] : c \in Codes, v \in Payloads}
         \cup {[ctor |-> "Xml", code |-> c, value |-> v] : c \in Codes, v \in Payloads}
         \cup {[ctor |-> "Error", code |-> c, err |-> e] : c \in Codes, e \in Messages}
         \cup {[ctor |-> "Message", code |-> c, data |-> <<"o", "k">>] : c \in Codes}
         \cup {[ctor |-> "Bytes", code |-> c, data |-> <<"b">>] : c \in Codes}
         \cup {[ctor |-> "Status", code |-> c] : c \in Codes}
    ELSE LET inner == Calls(d - 1)
             maps == {h \in HeaderMaps : WellTyped(h)}
         IN inner
            \cup {[ctor |-> "WithHeaders", headers |-> h, response |-> r] : h \in maps, r \in inner}
            \cup {[ctor |-> "WithHeaders", headers |-> h, response |-> [ctor |-> "nil"]] : h \in maps}
            \cup {[ctor |-> "StatusWithResponse", code |-> c, response |-> r] : c \in Codes, r \in inner}

\* the HttpResponse value a call builds
RECURSIVE Build(_)
Build(call) ==
    CASE call.ctor = "String" -> String(call.code, call.data)
      [] call.ctor = "Json" -> Json(call.code, call.value)
      [] call.ctor = "Xml" -> Xml(call.code, call.value)
      [] call.ctor = "Error" -> Error(call.code, call.err)
      [] call.ctor = "Message" -> Message(call.code, call.data)
      [] call.ctor = "Bytes" -> Bytes(call.code, call.data)
      [] call.ctor = "Status" -> Status(call.code)
      [] call.ctor = "WithHeaders" -> WithHeaders(call.headers, Build(call.response))
      [] call.ctor = "StatusWithResponse" -> StatusWithResponse(call.code, Build(call.response))
      [] OTHER -> NoResponse

\* ------------------------------------------------ the http.ResponseWriter
\* A header that is not set reads as the empty string, as Header().Get does.
NoHeaders == [k \in HeaderKeys |-> ""]

NewResponseWriter ==
    [state |-> "open", header |-> NoHeaders, wroteHeader |-> FALSE, status |-> 0,
     sent |-> NoHeaders, body |-> <<>>]

\* rw.WriteHeader(code): the first call sends the status line and the
\* headers as they stand; later calls are ignored
WriteHeader(w, code) ==
    IF w.wroteHeader THEN w
    ELSE [w EXCEPT !.wroteHeader = TRUE, !.status = code, !.sent = w.header]

\* rw.Header().Set(key, value)
HeaderSet(w, key, value) == [w EXCEPT !.header[key] = value]

\* rw.Write(data): writes the header with status 200 first if none was written
Write(w, data) ==
    LET w1 == WriteHeader(w, 200)
    IN [w1 EXCEPT !.body = @ \o data]

\* response.go:70-75, the loop over h.headers
SetMissingHeaders(w, headers) ==
    [w EXCEPT !.header = [k \in HeaderKeys |->
        IF k \in DOMAIN headers /\ Len(w.header[k]) = 0 THEN headers[k] ELSE w.header[k]]]

RenderIdle ==
    /\ resp = NoResponse
    /\ top = [ctor |-> "nil"]
    /\ rw = [NewResponseWriter EXCEPT !.state = "idle"]

\* ----------------------------------------------------------- ServeHTTP
ServeInit ==
    /\ pc = [r \in Requests |-> "idle"]
    /\ request = [r \in Requests |-> Nil]
    /\ httpRequest = [r \in Requests |-> Nil]
    /\ heap = <<>>
    /\ local = [r \in Requests |-> NoLocal]
    /\ log = [r \in Requests |-> <<>>]
    /\ out = [r \in Requests |-> <<>>]

Init ==
    /\ \E gk \in SeqsUpTo(Kinds, MaxGlobal), lk \in SeqsUpTo(Kinds, MaxLocal) :
        /\ globalMiddlewares = MiddlewareList("G", gk)
        /\ nodeMiddlewares = insert(MiddlewareList("L", lk))
    /\ ServeInit
    /\ RenderIdle

\* handler.go:9-15: the request arrives, its HttpRequest is built
Arrive(r, m, p) ==
    /\ pc[r] = "idle"
    /\ LET req == [method |-> m, path |-> p]
           hr == NewHttpRequest(heap, req)
       IN /\ request' = [request EXCEPT ![r] = req]
          /\ httpRequest' = [httpRequest EXCEPT ![r] = hr]
          /\ heap' = AllocRouteParams(heap, hr.RouteParams)
          /\ local' = [local EXCEPT ![r].method = methodToInt(m)]
    /\ pc' = [pc EXCEPT ![r] = "find"]
    /\ UNCHANGED <<routerVars, log, out, renderVars>>

Begin(r) == \E m \in Methods, p \in Paths : Arrive(r, m, p)

\* handler.go:17-18
FindNode(r) ==
    /\ pc[r] = "find"
    /\ LET found == findNode(request[r].path)
       IN /\ local' = [local EXCEPT ![r].node = found.node, ![r].params = found.params]
          /\ heap' = StoreRouteParams(heap, httpRequest[r].RouteParams, found.params)
    /\ pc' = [pc EXCEPT ![r] = "select"]
    /\ UNCHANGED <<routerVars, request, httpRequest, log, out, renderVars>>

\* handler.go:20-35
Select(r) ==
    /\ pc[r] = "select"
    /\ LET endpoint == SelectEndpoint(local[r].node, local[r].method)
           middlewares == SelectMiddlewares(nodeMiddlewares, local[r].node, local[r].method)
       IN local' = [local EXCEPT ![r].endpoint = endpoint,
                                 ![r].middlewares = middlewares,
                                 ![r].next = Terminal(endpoint, httpRequest[r]),
                                 ![r].i = LastIndex(middlewares)]
    /\ pc' = [pc EXCEPT ![r] = "local"]
    /\ UNCHANGED <<routerVars, request, httpRequest, heap, log, out, renderVars>>

\* handler.go:35-38, one iteration
ComposeLocal(r) ==
    /\ pc[r] = "local"
    /\ local[r].i >= 1
    /\ LET middleware == local[r].middlewares[local[r].i]
       IN /\ log' = [log EXCEPT ![r] = Append(@, Entered(middleware, httpRequest[r], heap))]
          /\ local' = [local EXCEPT ![r].next = Wrap(middleware, @),
                                    ![r].i = @ - 1]
    /\ UNCHANGED <<routerVars, pc, request, httpRequest, heap, out, renderVars>>

\* handler.go:35 and :39: the local loop ends, the global loop starts
LocalDone(r) ==
    /\ pc[r] = "local"
    /\ local[r].i < 1
    /\ local' = [local EXCEPT ![r].i = LastIndex(globalMiddlewares)]
    /\ pc' = [pc EXCEPT ![r] = "global"]
    /\ UNCHANGED <<routerVars, request, httpRequest, heap, log, out, renderVars>>

\* handler.go:39-42, one iteration
ComposeGlobal(r) ==
    /\ pc[r] = "global"
    /\ local[r].i >= 1
    /\ LET middleware == globalMiddlewares[local[r].i]
       IN /\ log' = [log EXCEPT ![r] = Append(@, Entered(middleware, httpRequest[r], heap))]
          /\ local' = [local EXCEPT ![r].next = Wrap(middleware, @),
                                    ![r].i = @ - 1]
    /\ UNCHANGED <<routerVars, pc, request, httpRequest, heap, out, renderVars>>

\* handler.go:39 and :43: the global loop ends, next.ServeHTTP is called
GlobalDone(r) ==
    /\ pc[r] = "global"
    /\ local[r].i < 1
    /\ pc' = [pc EXCEPT ![r] = "serve"]
    /\ UNCHANGED <<routerVars, request, httpRequest, heap, local, log, out, renderVars>>

\* handler.go:43: the response of a middleware that wraps next renders its
\* own part and invokes next
ServeWrap(r) ==
    /\ pc[r] = "serve"
    /\ local[r].next.kind = "wrap"
    /\ out' = [out EXCEPT ![r] = Append(@, <<"wrapped by", local[r].next.mw>>)]
    /\ local' = [local EXCEPT ![r].next = @.next]
    /\ UNCHANGED <<routerVars, pc, request, httpRequest, heap, log, renderVars>>

\* handler.go:43: the response of a middleware that never invokes next
ServeOwn(r) ==
    /\ pc[r] = "serve"
    /\ local[r].next.kind = "own"
    /\ out' = [out EXCEPT ![r] = Append(@, <<"response of", local[r].next.mw>>)]
    /\ pc' = [pc EXCEPT ![r] = "done"]
    /\ UNCHANGED <<routerVars, request, httpRequest, heap, local, log, renderVars>>

\* handler.go:31-33: endpoint(httpRequest).ServeHTTP(rw, r)
ServeEndpoint(r) ==
    /\ pc[r] = "serve"
    /\ local[r].next.kind = "endpoint"
    /\ log' = [log EXCEPT ![r] = Append(@, Invoked(local[r].next.endpoint, local[r].next.req, heap))]
    /\ out' = [out EXCEPT ![r] = Append(@, <<"response of", local[r].next.endpoint>>)]
    /\ pc' = [pc EXCEPT ![r] = "done"]
    /\ UNCHANGED <<routerVars, request, httpRequest, heap, local, renderVars>>

Step(r) ==
    \/ FindNode(r)
    \/ Select(r)
    \/ ComposeLocal(r)
    \/ LocalDone(r)
    \/ ComposeGlobal(r)
    \/ GlobalDone(r)
    \/ ServeWrap(r)
    \/ ServeOwn(r)
    \/ ServeEndpoint(r)

Next == \E r \in {1} : Begin(r) \/ Step(r)

Spec == Init /\ [][Next]_vars

\* ------------------------------------------------ concurrent executions
\* Every request is served by a goroutine of its own; the router is read
\* only: one global middleware and one local middleware on GET /users/:id.
\* The requests are GET requests to the route that binds a parameter.
ConcPaths ==
    {p \in Paths : /\ findNode(p).node # Nil
                   /\ findNode(p).params # EmptyMap}

ConcInit ==
    /\ \E k \in Kinds :
        /\ globalMiddlewares = MiddlewareList("G", <<k>>)
        /\ nodeMiddlewares = insert(MiddlewareList("L", <<"wrap">>))
    /\ ServeInit
    /\ RenderIdle

ConcBegin(r) == \E p \in ConcPaths : Arrive(r, "GET", p)

ConcNext == \E r \in Requests : ConcBegin(r) \/ Step(r)

ConcSpec == ConcInit /\ [][ConcNext]_vars

\* ----------------------------------------------------------- rendering
\* an endpoint returns its response and the closure of handler.go:32 calls
\* its ServeHTTP with the writer of the request
Hand(call) ==
    /\ rw.state = "idle"
    /\ top' = call
    /\ resp' = Build(call)
    /\ rw' = NewResponseWriter
    /\ UNCHANGED <<routerVars, serveVars>>

Rendering == rw.state = "open"

\* response.go:33-35
bytesResponseServeHTTP ==
    /\ Rendering
    /\ resp.kind = "bytes"
    /\ rw' = Write(rw, resp.data)
    /\ resp' = NoResponse
    /\ UNCHANGED <<routerVars, serveVars, top>>

\* response.go:52-57
statusResponseServeHTTP ==
    /\ Rendering
    /\ resp.kind = "status"
    /\ rw' = WriteHeader(rw, resp.code)
    /\ resp' = resp.response
    /\ UNCHANGED <<routerVars, serveVars, top>>

\* response.go:69-79
headerResponseServeHTTP ==
    /\ Rendering
    /\ resp.kind = "header"
    /\ rw' = SetMissingHeaders(rw, resp.headers)
    /\ resp' = resp.response
    /\ UNCHANGED <<routerVars, serveVars, top>>

\* response.go:91-95
stringResponseServeHTTP ==
    /\ Rendering
    /\ resp.kind = "string"
    /\ rw' = Write(HeaderSet(WriteHeader(rw, resp.code),
                             ResponseHeaderContentType, ContentTypeTextPlain), resp.data)
    /\ resp' = NoResponse
    /\ UNCHANGED <<routerVars, serveVars, top>>

\* response.go:164-168
jsonResponseServeHTTP ==
    /\ Rendering
    /\ resp.kind = "json"
    /\ rw' = Write(HeaderSet(WriteHeader(rw, resp.code),
                             ResponseHeaderContentType, ContentTypeApplicationJson), resp.data)
    /\ resp' = NoResponse
    /\ UNCHANGED <<routerVars, serveVars, top>>

\* response.go:204-208
xmlResponseServeHTTP ==
    /\ Rendering
    /\ resp.kind = "xml"
    /\ rw' = Write(HeaderSet(WriteHeader(rw, resp.code),
                             ResponseHeaderContentType, ContentTypeApplicationXml), resp.data)
    /\ resp' = NoResponse
    /\ UNCHANGED <<routerVars, serveVars, top>>

\* the handler returns: the server sends the header if none was written
Finish ==
    /\ Rendering
    /\ resp.kind = "none"
    /\ rw' = [WriteHeader(rw, 200) EXCEPT !.state = "finished"]
    /\ UNCHANGED <<routerVars, serveVars, top, resp>>

RenderInit ==
    /\ globalMiddlewares = <<>>
    /\ nodeMiddlewares = insert(<<>>)
    /\ ServeInit
    /\ RenderIdle

RenderNext ==
    \/ \E call \in Calls(MaxDepth) : Hand(call)
    \/ bytesResponseServeHTTP
    \/ statusResponseServeHTTP
    \/ headerResponseServeHTTP
    \/ stringResponseServeHTTP
    \/ jsonResponseServeHTTP
    \/ xmlResponseServeHTTP
    \/ Finish

RenderSpec == RenderInit /\ [][RenderNext]_vars

\* ------------------------------------------------- properties: ServeHTTP
IsEnter(e) == e.ev = "enter"
IsEndpoint(e) == e.ev = "endpoint"

\* the middlewares that were entered, in the order of their entry
Enters(r) == LET es == SelectSeq(log[r], IsEnter) IN [i \in 1..Len(es) |-> es[i].who]
EndpointCalls(r) == SelectSeq(log[r], IsEndpoint)

Ids(mws) == [i \in 1..Len(mws) |-> mws[i].id]
Range(s) == {s[i] : i \in 1..Len(s)}

Started(r) == pc[r] # "idle"
Selected(r) == pc[r] \in {"local", "global", "serve", "done"}
Composed(r) == pc[r] \in {"serve", "done"}

\* what the trie and the route table hold for the request, read off the
\* request itself
Resolved(r) == findNode(request[r].path)
PathFound(r) == Resolved(r).node # Nil
RegisteredEndpoint(r) ==
    IF PathFound(r) THEN handler(Resolved(r).node)[methodToInt(request[r].method)] ELSE Nil
Matched(r) == RegisteredEndpoint(r) # Nil
RegisteredLocals(r) ==
    IF PathFound(r) THEN nodeMiddlewares[Resolved(r).node][methodToInt(request[r].method)]
    ELSE <<>>

\* C1: for a request to a matched route the middlewares are entered in the
\* order G1..Gn, L1..Lm, and the endpoint runs after all of them.
C1_EntryOrderIsOnionOrder ==
    \A r \in Requests :
        (Started(r) /\ Composed(r) /\ Matched(r)) =>
            /\ Enters(r) = Ids(globalMiddlewares) \o Ids(RegisteredLocals(r))
            /\ \A i \in 1..Len(log[r]) : IsEndpoint(log[r][i]) => i = Len(log[r])

\* what the chain of middlewares mws renders when one of them never invokes
\* next: the parts of the wrapping middlewares outside it, then its response
RECURSIVE ProducedBy(_)
ProducedBy(mws) ==
    IF mws = <<>> THEN <<>>
    ELSE CASE Head(mws).kind = "short" -> << <<"response of", Head(mws).id>> >>
           [] Head(mws).kind = "wrap" -> << <<"wrapped by", Head(mws).id>> >> \o ProducedBy(Tail(mws))
           [] OTHER -> ProducedBy(Tail(mws))

ShortCircuits(mws) == \E i \in 1..Len(mws) : mws[i].kind = "short"

\* C2: when a global or local middleware of the request returns a response
\* that never invokes next, the endpoint is never invoked and the transport
\* receives that middleware's response, wrapped by the middlewares outside it.
C2_ShortCircuitSkipsEndpoint ==
    \A r \in Requests :
        (Started(r) /\ ShortCircuits(globalMiddlewares \o RegisteredLocals(r))) =>
            /\ EndpointCalls(r) = <<>>
            /\ pc[r] = "done" => out[r] = ProducedBy(globalMiddlewares \o RegisteredLocals(r))

C2_Witness ==
    /\ pc[1] = "done"
    /\ Len(globalMiddlewares) = 2
    /\ globalMiddlewares[1].kind = "wrap"
    /\ globalMiddlewares[2].kind = "pass"
    /\ Len(RegisteredLocals(1)) = 2
    /\ RegisteredLocals(1)[1].kind = "short"
    /\ out[1] = << <<"wrapped by", <<"G", 1>> >>, <<"response of", <<"L", 1>> >> >>

\* C3: when the path does not resolve, or the method (an unrecognized one
\* included) has no handler at the resolved node, the endpoint dispatched is
\* the not-found endpoint: never nil, never another method's endpoint.
C3_MissDispatchesNotFound ==
    \A r \in Requests :
        (Started(r) /\ Selected(r) /\ ~Matched(r)) =>
            /\ local[r].endpoint = RouteNotFoundHandler
            /\ local[r].endpoint # Nil
            /\ \A i \in 1..Len(log[r]) :
                IsEndpoint(log[r][i]) => log[r][i].who = RouteNotFoundHandler

C3_Witness ==
    /\ pc[1] = "done"
    /\ request[1] = [method |-> "BREW", path |-> <<"users", "42">>]
    /\ handler(Resolved(1).node)[methodToInt("GET")] = "getUser"
    /\ EndpointCalls(1) # <<>>
    /\ out[1][Len(out[1])] = <<"response of", RouteNotFoundHandler>>

\* C5: the bindings of the trie lookup are in the request's RouteParams slot
\* before any middleware and before the endpoint run, so each of them reads
\* the full bindings through the request.
C5_ParamsWrittenBeforeMiddlewares ==
    \A r \in Requests :
        Started(r) =>
            /\ pc[r] # "find" => heap[httpRequest[r].RouteParams] = Resolved(r).params
            /\ pc[r] = "find" => log[r] = <<>>
            /\ \A i \in 1..Len(log[r]) : log[r][i].params = Resolved(r).params

C5_Witness ==
    /\ pc[1] = "done"
    /\ request[1] = [method |-> "GET", path |-> <<"users", "42">>]
    /\ Len(log[1]) = 5
    /\ \A i \in 1..5 : log[1][i].params = [k \in {"id"} |-> "42"]
    /\ log[1][5].who = "getUser"

\* C9: when the path resolves and the node has no endpoint for the method,
\* the not-found endpoint is composed with no local middleware: only the
\* global middlewares run.
C9_MethodMissHasNoLocals ==
    \A r \in Requests :
        (Started(r) /\ Selected(r) /\ PathFound(r) /\ ~Matched(r)) =>
            /\ local[r].middlewares = <<>>
            /\ local[r].endpoint = RouteNotFoundHandler
            /\ Range(Enters(r)) \subseteq Range(Ids(globalMiddlewares))
            /\ Composed(r) => Enters(r) = [i \in 1..Len(globalMiddlewares) |->
                    globalMiddlewares[Len(globalMiddlewares) + 1 - i].id]

C9_Witness ==
    /\ pc[1] = "done"
    /\ request[1] = [method |-> "POST", path |-> <<"users", "42">>]
    /\ Len(nodeMiddlewares[Resolved(1).node][methodToInt("GET")]) = 2
    /\ Len(Enters(1)) = 2
    /\ EndpointCalls(1) # <<>>

Count(s, x) == Cardinality({i \in 1..Len(s) : s[i] = x})

\* C10: every global middleware and every local middleware of the matched
\* route is called exactly once per request, also when a middleware further
\* out returns a response that never invokes next.
C10_EachMiddlewareCalledOnce ==
    \A r \in Requests :
        Started(r) =>
            LET all == Ids(globalMiddlewares) \o Ids(RegisteredLocals(r))
            IN /\ \A id \in Range(all) : Count(Enters(r), id) <= 1
               /\ Composed(r) => /\ Len(Enters(r)) = Len(all)
                                 /\ \A id \in Range(all) : Count(Enters(r), id) = 1

C10_Witness ==
    /\ pc[1] = "done"
    /\ Len(globalMiddlewares) = 2
    /\ globalMiddlewares[1].kind = "short"
    /\ Len(RegisteredLocals(1)) = 2
    /\ Len(Enters(1)) = 4
    /\ EndpointCalls(1) = <<>>

\* the layers of a composed chain
RECURSIVE Layers(_)
Layers(chain) ==
    IF chain.kind = "wrap" THEN {chain} \cup Layers(chain.next) ELSE {chain}

\* C6: with requests served concurrently, the RouteParams slot, the
\* HttpRequest and the composed chain of a request are its own: what its
\* middlewares and its endpoint read are its own bindings, and its chain
\* holds its own endpoint, its own HttpRequest and its own middlewares.
C6_RequestOwnsItsState ==
    /\ \A r1, r2 \in Requests :
        (r1 # r2 /\ Started(r1) /\ Started(r2)) =>
            httpRequest[r1].RouteParams # httpRequest[r2].RouteParams
    /\ \A r \in Requests :
        Started(r) =>
            /\ \A i \in 1..Len(log[r]) : log[r][i].params = Resolved(r).params
            /\ Selected(r) =>
                \A layer \in Layers(local[r].next) :
                    IF layer.kind = "endpoint"
                    THEN /\ layer.req = httpRequest[r]
                         /\ layer.endpoint = IF Matched(r) THEN RegisteredEndpoint(r)
                                             ELSE RouteNotFoundHandler
                    ELSE layer.mw \in Range(Ids(globalMiddlewares)) \cup Range(Ids(RegisteredLocals(r)))

C6_Witness ==
    /\ pc[1] = "global"
    /\ pc[2] = "serve"
    /\ request[1].path = <<"users", "42">>
    /\ request[2].path = <<"users", "users">>
    /\ Len(log[1]) = 1
    /\ Len(log[2]) = 2
    /\ log[1][1].params = [k \in {"id"} |-> "42"]
    /\ \A i \in 1..2 : log[2][i].params = [k \in {"id"} |-> "users"]

\* ------------------------------------------------- properties: rendering
Finished == rw.state = "finished"

\* the values the layers of response r set for header key while rendering:
\* the Content-Type of a String, Json or Xml renderer and the headers of the
\* WithHeaders wrappers inside r
RECURSIVE SetBy(_, _)
SetBy(r, key) ==
    CASE r.kind = "string" ->
            IF key = ResponseHeaderContentType THEN {ContentTypeTextPlain} ELSE {}
      [] r.kind = "json" ->
            IF key = ResponseHeaderContentType THEN {ContentTypeApplicationJson} ELSE {}
      [] r.kind = "xml" ->
            IF key = ResponseHeaderContentType THEN {ContentTypeApplicationXml} ELSE {}
      [] r.kind = "header" ->
            (IF key \in DOMAIN r.headers THEN {r.headers[key]} ELSE {}) \cup SetBy(r.response, key)
      [] r.kind = "status" -> SetBy(r.response, key)
      [] OTHER -> {}

\* C4: for WithHeaders(h, r) and every key k of h that r sets while rendering
\* (by its renderer or by a WithHeaders wrapper inside it), the rendered
\* response carries the value set by r, not h[k].
C4_InnerHeaderWins ==
    (Finished /\ top.ctor = "WithHeaders") =>
        \A k \in DOMAIN top.headers :
            LET inner == SetBy(Build(top.response), k)
            IN inner # {} => rw.sent[k] \in inner

\* the message with every quote preceded by a backslash
RECURSIVE EscapeQuotes(_)
EscapeQuotes(e) ==
    IF e = <<>> THEN <<>>
    ELSE (IF Head(e) = Quote THEN <<Backslash, Quote>> ELSE <<Head(e)>>) \o EscapeQuotes(Tail(e))

\* C7: the body of Error(code, err) is {"error":"<message>"} with every
\* quote of the message preceded by a backslash.
C7_ErrorEscapesQuotes ==
    (Finished /\ top.ctor = "Error") =>
        rw.body = jsonLeft \o EscapeQuotes(top.err) \o jsonRight

\* C8: a String, Json or Xml response rendered to a writer that commits its
\* headers at the first WriteHeader sends the matching Content-Type.
C8_ContentTypeIsSent ==
    (Finished /\ top.ctor \in {"String", "Json", "Xml"}) =>
        rw.sent[ResponseHeaderContentType] =
            CASE Build(top).kind = "string" -> ContentTypeTextPlain
              [] Build(top).kind = "json" -> ContentTypeApplicationJson
              [] Build(top).kind = "xml" -> ContentTypeApplicationXml

====
